---- MODULE Spec2Model ----
(***************************************************************************)
(* Request dispatch and tool execution of the MCP FileBridge server:       *)
(* MCPEnterpriseServer.handleMcpRequest / processRequest, the response     *)
(* cache in front of the list methods, and ToolRegistry.executeTool with   *)
(* its timeout/retry loop.  One request is handled by one process; a       *)
(* process suspends only where the code awaits something that is not       *)
(* already settled and that touches shared state afterwards.               *)
(***************************************************************************)
EXTENDS Integers, Sequences, FiniteSets, TLC

(* ------------------------------ bounds --------------------------------- *)
NumProcs    == 2      \* requests that can be in flight together
MaxRequests == 2      \* requests accepted in one behaviour
TickStep    == 400    \* seconds the clock advances in one Tick
MaxClock    == 400    \* the clock stops here
SecRetries  == 1      \* retries option of the tool "sec"
MaxRetries  == 3      \* largest retries option of a followed executeTool call
MaxOps      == 5      \* registry operations in one behaviour
MaxFields   == 2      \* fields of an object given to generateCacheKey

(* ------------------------- protocol constants -------------------------- *)
INVALID_REQUEST   == -32600
METHOD_NOT_FOUND  == -32601
INTERNAL_ERROR    == -32603
PERMISSION_DENIED == -32003
PROCESSING_ERROR  == -32006
SERVER_ERROR_END  == -32000
CacheTtl          == 300
DefaultTimeout    == 30000

(* ---------------------------- value universe --------------------------- *)
NullId          == "<null>"        \* id null or undefined
NoUser          == "<none>"        \* no x-user-id header
MissingMethod   == "<undefined>"   \* request without a method
NonStringMethod == "<number>"      \* method that is not a string

Procs    == 1..NumProcs
Ids      == {NullId, "id1"}
UserIds  == {NoUser, "u1"}
Versions == {"2.0", "1.0"}
BuiltinMethods == {"initialize", "tools/list", "tools/call",
                   "resources/list", "resources/read", "ping"}
Methods  == BuiltinMethods \cup {"unknown_method", "", MissingMethod, NonStringMethod}

Str(s) == [t |-> "str", s |-> s]
Num(s) == [t |-> "num", s |-> s]
Nested(b) == [t |-> "obj", body |-> b]
Absent    == [kind |-> "absent", body |-> <<>>]
Obj(b)    == [kind |-> "object", body |-> b]
Arr(b)    == [kind |-> "array",  body |-> b]
ToolNames == {"ping", "sec", "adm", "nope"}
CallParams   == {Obj(<< <<"name", Str(n)>> >>) : n \in ToolNames}
PlainParams  == {Absent, Obj(<<>>)}
ParamsFor(m) == IF m = "tools/call" THEN CallParams \cup PlainParams
                ELSE IF m = "ping" THEN PlainParams \cup {Arr(<<Num("1")>>)}
                ELSE PlainParams
Requests == UNION {{[jsonrpc |-> v, method |-> m, params |-> q, id |-> i] :
                      v \in Versions, q \in ParamsFor(m), i \in Ids} : m \in Methods}

(* --------------------------- text as char codes ------------------------ *)
CharCodes == ("name" :> <<110, 97, 109, 101>>) @@
             ("ping" :> <<112, 105, 110, 103>>) @@
             ("sec"  :> <<115, 101, 99>>) @@
             ("adm"  :> <<97, 100, 109>>) @@
             ("nope" :> <<110, 111, 112, 101>>) @@
             ("a"    :> <<97>>) @@
             ("b"    :> <<98>>) @@
             ("0"    :> <<48>>) @@
             ("1"    :> <<49>>) @@
             ("2"    :> <<50>>)

RECURSIVE LexLess(_, _)
LexLess(x, y) ==
    IF x = <<>> THEN y # <<>>
    ELSE IF y = <<>> THEN FALSE
    ELSE IF Head(x) # Head(y) THEN Head(x) < Head(y)
    ELSE LexLess(Tail(x), Tail(y))

RECURSIVE Insert(_, _)
Insert(k, ks) ==
    IF ks = <<>> THEN <<k>>
    ELSE IF LexLess(CharCodes[k], CharCodes[Head(ks)]) THEN <<k>> \o ks
    ELSE <<Head(ks)>> \o Insert(k, Tail(ks))

RECURSIVE SortKeys(_)
SortKeys(ks) == IF ks = <<>> THEN <<>> ELSE Insert(Head(ks), SortKeys(Tail(ks)))

RECURSIVE IndexKeys(_)
IndexKeys(n) == IF n = 0 THEN <<>> ELSE IndexKeys(n - 1) \o <<ToString(n - 1)>>

ObjectKeys(q) ==
    IF q.kind = "object" THEN [i \in 1..Len(q.body) |-> q.body[i][1]]
    ELSE IF q.kind = "array" THEN IndexKeys(Len(q.body))
    ELSE <<>>

Quote(s) == <<34>> \o CharCodes[s] \o <<34>>

HasKey(q, k) == \E i \in 1..Len(q.body) : q.body[i][1] = k
Lookup(q, k) == q.body[CHOOSE i \in 1..Len(q.body) :
                         q.body[i][1] = k /\ \A j \in 1..Len(q.body) : q.body[j][1] = k => j <= i][2]

(* JSON.stringify(value, replacer) with an array replacer: every object, at
   any depth, is written with the replacer's keys, in the replacer's order *)
RECURSIVE ValueText(_, _)
RECURSIVE ObjectText(_, _, _, _)
ObjectText(q, ks, replacer, first) ==
    IF ks = <<>> THEN <<>>
    ELSE IF HasKey(q, Head(ks))
         THEN (IF first THEN <<>> ELSE <<44>>) \o Quote(Head(ks)) \o <<58>>
              \o ValueText(Lookup(q, Head(ks)), replacer)
              \o ObjectText(q, Tail(ks), replacer, FALSE)
         ELSE ObjectText(q, Tail(ks), replacer, first)

ValueText(v, replacer) ==
    IF v.t = "str" THEN Quote(v.s)
    ELSE IF v.t = "num" THEN CharCodes[v.s]
    ELSE <<123>> \o ObjectText(v, replacer, replacer, TRUE) \o <<125>>

RECURSIVE ArrayText(_, _, _)
ArrayText(items, replacer, first) ==
    IF items = <<>> THEN <<>>
    ELSE (IF first THEN <<>> ELSE <<44>>) \o ValueText(Head(items), replacer)
         \o ArrayText(Tail(items), replacer, FALSE)

JsonStringify(q, replacer) ==
    IF q.kind = "object" THEN <<123>> \o ObjectText(q, replacer, replacer, TRUE) \o <<125>>
    ELSE <<91>> \o ArrayText(q.body, replacer, TRUE) \o <<93>>

(* 32-bit hash kept as two 16-bit halves <<hi, lo>> *)
HashStep(h, c) ==
    LET lo == 31 * h[2] + c
        hi == 31 * h[1] + (lo \div 65536)
    IN  <<hi % 65536, lo % 65536>>

(* h is never empty: the comparison keeps the running hash evaluated *)
RECURSIVE HashChars(_, _)
HashChars(h, str) ==
    IF str = <<>> \/ h = <<>> THEN h ELSE HashChars(HashStep(h, Head(str)), Tail(str))

Abs32(h) ==
    IF h[1] < 32768 THEN h
    ELSE <<(65535 - h[1] + (IF h[2] = 0 THEN 1 ELSE 0)) % 65536, (65536 - h[2]) % 65536>>

RECURSIVE Base36(_)
Base36(h) ==
    LET part == (h[1] % 36) * 65536 + h[2]
        q    == <<h[1] \div 36, part \div 36>>
    IN  IF q = <<0, 0>> THEN <<part % 36>> ELSE Base36(q) \o <<part % 36>>

(* JSON.stringify(undefined, []) is undefined and str.length then throws a
   TypeError; <<-1>> stands for that exception (digits are 0..35). *)
Throws == <<-1>>
hashObject_unsorted(obj) ==
    IF obj.kind = "absent" THEN Throws
    ELSE Base36(Abs32(HashChars(<<0, 0>>, JsonStringify(obj, ObjectKeys(obj)))))

hashObject(obj) ==
    IF obj.kind = "absent" THEN Throws
    ELSE Base36(Abs32(HashChars(<<0, 0>>, JsonStringify(obj, SortKeys(ObjectKeys(obj))))))

generateCacheKey(method, params) == <<"mcp", method, hashObject(params)>>
Thrown(cacheKey) == cacheKey[3] = Throws

isCacheableMethod(method) == method \in {"tools/list", "resources/list"}

(* ------------------------------ responses ------------------------------ *)
hasError(response) == "error" \in DOMAIN response
hasResult(response) == "result" \in DOMAIN response

createErrorResponse_withResult(id, code, message) ==
    [jsonrpc |-> "2.0", id |-> id, result |-> [none |-> TRUE],
     error |-> [code |-> code, message |-> message]]

createErrorResponse(id, code, message) ==
    [jsonrpc |-> "2.0", id |-> id, error |-> [code |-> code, message |-> message]]

successResponse(id, result) == [jsonrpc |-> "2.0", id |-> id, result |-> result]

(* --------------------------- envelope, context ------------------------- *)
validateJsonRpcRequest(request) ==
    /\ request.jsonrpc = "2.0"
    /\ ~(request.method \in {MissingMethod, ""})
    /\ request.method # NonStringMethod

extractSecurityContext(userId) ==
    [userId |-> userId, roles |-> {"user"}, permissions |-> {"read", "write"}]

(* SecurityService.canExecuteTool is async; the caller negates the promise,
   which is always truthy, so the dispatcher-level check never denies. *)
SecurityService_canExecuteTool(securityContext, name) == TRUE

(* ------------------------------ ToolRegistry --------------------------- *)
Opt(options, field, default) ==
    IF field \in DOMAIN options THEN options[field] ELSE default

IndexOfTool(tools, name) ==
    IF \E i \in 1..Len(tools) : tools[i].tool.name = name
    THEN CHOOSE i \in 1..Len(tools) : tools[i].tool.name = name
    ELSE 0

NewTool(name, options) ==
    [tool |-> [name |-> name],
     options |-> [requiresAuth |-> Opt(options, "requiresAuth", FALSE),
                  requiredPermissions |-> Opt(options, "requiredPermissions", {}),
                  timeout |-> Opt(options, "timeout", DefaultTimeout),
                  retries |-> Opt(options, "retries", 0)],
     executionCount |-> 0,
     lastExecuted |-> -1]

(* the duplicate check is missing: Map.set replaces the entry in place *)
registerTool_overwrite(tools, name, options) ==
    IF IndexOfTool(tools, name) # 0
    THEN [tools EXCEPT ![IndexOfTool(tools, name)] = NewTool(name, options)]
    ELSE Append(tools, NewTool(name, options))

registerTool(tools, name, options) ==
    IF IndexOfTool(tools, name) # 0 THEN tools
    ELSE Append(tools, NewTool(name, options))

AlreadyRegistered(tools, name) == IndexOfTool(tools, name) # 0

(* the statistics update is missing *)
updateExecutionStats_skipped(tools, i, at) == tools

(* the count is written from the value read at registration *)
updateExecutionStats_fromSnapshot(tools, i, at) ==
    [tools EXCEPT ![i].executionCount = 1, ![i].lastExecuted = at]

(* registeredTool.executionCount++; registeredTool.lastExecuted = new Date() *)
updateExecutionStats(tools, i, at) ==
    [tools EXCEPT ![i].executionCount = @ + 1, ![i].lastExecuted = at]

unregisterTool_keepsEntry(tools, name) == tools

unregisterTool(tools, name) == SelectSeq(tools, LAMBDA t : t.tool.name # name)

canExecuteTool_anyPermission(securityContext, registeredTool) ==
    LET options == registeredTool.options IN
    IF options.requiresAuth /\ securityContext.userId = NoUser THEN FALSE
    ELSE IF options.requiredPermissions # {}
            /\ ~(\E permission \in options.requiredPermissions :
                    permission \in securityContext.permissions)
         THEN FALSE
         ELSE TRUE

canExecuteTool_authOnly(securityContext, registeredTool) ==
    ~(registeredTool.options.requiresAuth /\ securityContext.userId = NoUser)

canExecuteTool(securityContext, registeredTool) ==
    LET options == registeredTool.options IN
    IF options.requiresAuth /\ securityContext.userId = NoUser THEN FALSE
    ELSE IF options.requiredPermissions # {}
            /\ ~(\A permission \in options.requiredPermissions :
                    permission \in securityContext.permissions)
         THEN FALSE
         ELSE TRUE

RECURSIVE getAvailableTools(_, _)
getAvailableTools(tools, securityContext) ==
    IF tools = <<>> THEN <<>>
    ELSE (IF canExecuteTool(securityContext, Head(tools)) THEN <<Head(tools).tool>> ELSE <<>>)
         \o getAvailableTools(Tail(tools), securityContext)

InitialTools ==
    registerTool(
      registerTool(
        registerTool(<<>>, "ping", [timeout |-> DefaultTimeout]),
        "sec", [requiresAuth |-> TRUE, retries |-> SecRetries]),
      "adm", [requiredPermissions |-> {"admin"}])

(* ------------------------------ CacheService --------------------------- *)
NoEntry == [none |-> TRUE]

cacheGet_expiryInverted(store, key, now) ==
    IF key \in DOMAIN store /\ store[key].expires < now THEN store[key].value ELSE NoEntry

cacheGet(store, key, now) ==
    IF key \in DOMAIN store /\ ~(store[key].expires < now) THEN store[key].value ELSE NoEntry

(* set-if-absent: a live entry is kept *)
cacheSet_keepFirst(store, key, value, ttl, now) ==
    IF key \in DOMAIN store THEN store
    ELSE (key :> [value |-> value, expires |-> now + ttl]) @@ store

cacheSet(store, key, value, ttl, now) ==
    (key :> [value |-> value, expires |-> now + ttl]) @@ store

shouldCache_anyResponse(method, response) == isCacheableMethod(method)

shouldCache(method, response) == isCacheableMethod(method) /\ ~hasError(response)

(* -------------------------------- state -------------------------------- *)
VARIABLES
    registry,      \* ToolRegistry.tools, in insertion order
    cache,         \* CacheService store: key -> [value, expires]
    clock,         \* seconds since start
    nreq,          \* requests accepted so far
    pc,            \* per process: "idle", "get", "store", "attempt", "backoff"
    req,           \* per process: the request being handled
    ctx,           \* per process: x-user-id of the caller
    cached,        \* per process: what cache.get returned
    resp,          \* per process: the response built on a cache miss
    attempt,       \* per process: loop variable of executeWithTimeout
    ev,            \* per process: what this dispatch has done so far
    last,          \* the dispatch that finished most recently
    handlerCalls,  \* per tool name: invocations of its handler
    \* one executeTool call followed in milliseconds
    nowMs,         \* Date.now() in ms
    xpc,           \* "call", "race", "backoff", "done"
    xattempt,      \* loop variable of executeWithTimeout
    behaviour,     \* what the bound handler does on each invocation
    raceStart,     \* when the running attempt set its timer and called the handler
    wakeAt,        \* when the backoff timer fires
    lastError,     \* executeWithTimeout's lastError
    xlog,          \* per attempt: when it was invoked, when and how it ended
    xresult,       \* what executeTool returned or threw
    xresp,         \* what handleToolCall returned
    doneAt,        \* when executeTool returned or threw
    xmetrics,      \* recordToolExecution calls made by executeTool
    late,          \* attempts whose handler completed after their race was lost
    \* the registry under register / unregister
    regTime,       \* per tool name: number of the registerTool call that inserted it
    nops,          \* registry operations so far
    regError,      \* what the last registry operation threw
    lastOp,        \* the last registry operation and its arguments
    \* one application of a pure function
    input,
    output

dispatchVars == <<cache, clock, nreq, pc, req, ctx, cached, resp, attempt, ev, last>>
execVars == <<nowMs, xpc, xattempt, behaviour, raceStart, wakeAt, lastError, xlog,
              xresult, xresp, doneAt, xmetrics, late>>
regVars  == <<regTime, nops, regError, lastOp>>
pureVars == <<input, output>>
auxVars  == <<execVars, regVars, pureVars>>

vars == <<registry, cache, clock, nreq, pc, req, ctx, cached, resp, attempt, ev,
          last, handlerCalls, auxVars>>

NoRequest  == [none |-> TRUE]
NoDispatch == [none |-> TRUE]
Undefined  == "<undefined>"

NoError == [none |-> TRUE]

(* nothing is being dispatched *)
DispatchIdle ==
    /\ cache = [k \in {} |-> NoEntry]
    /\ clock = 0
    /\ nreq = 0
    /\ pc = [p \in Procs |-> "idle"]
    /\ req = [p \in Procs |-> NoRequest]
    /\ ctx = [p \in Procs |-> NoUser]
    /\ cached = [p \in Procs |-> NoEntry]
    /\ resp = [p \in Procs |-> NoEntry]
    /\ attempt = [p \in Procs |-> 0]
    /\ ev = [p \in Procs |-> <<>>]
    /\ last = NoDispatch

(* no executeTool call is being followed *)
ExecIdle ==
    /\ nowMs = 0
    /\ xpc = "done"
    /\ xattempt = 0
    /\ behaviour = <<>>
    /\ raceStart = 0
    /\ wakeAt = 0
    /\ lastError = NoError
    /\ xlog = <<>>
    /\ xresult = NoEntry
    /\ xresp = NoEntry
    /\ doneAt = 0
    /\ xmetrics = 0
    /\ late = {}

RegIdle ==
    /\ regTime = [n \in ToolNames |-> 0]
    /\ nops = 0
    /\ regError = NoError
    /\ lastOp = NoEntry

PureIdle ==
    /\ input = NoEntry
    /\ output = NoEntry

Init ==
    /\ registry = InitialTools
    /\ handlerCalls = [n \in ToolNames |-> 0]
    /\ DispatchIdle
    /\ ExecIdle
    /\ RegIdle
    /\ PureIdle

(* res.json / res.status(500).json: the dispatch is over *)
Finish(p, request, userId, response, status, events) ==
    /\ last' = [req |-> request, userId |-> userId, resp |-> response,
                status |-> status, sent |-> TRUE, ev |-> events, at |-> clock]
    /\ pc' = [pc EXCEPT ![p] = "idle"]
    /\ req' = [req EXCEPT ![p] = NoRequest]
    /\ ctx' = [ctx EXCEPT ![p] = NoUser]
    /\ cached' = [cached EXCEPT ![p] = NoEntry]
    /\ resp' = [resp EXCEPT ![p] = NoEntry]
    /\ attempt' = [attempt EXCEPT ![p] = 0]
    /\ ev' = [ev EXCEPT ![p] = <<>>]

(* handleMcpRequest after processRequest returned: metrics, then the response *)
Respond(p, request, userId, response, events) ==
    Finish(p, request, userId, response, 200, events \o <<"requestMetric">>)

(* handleMcpRequest's catch block *)
RespondInternalError(p, request, userId, events) ==
    Finish(p, request, userId,
           createErrorResponse(NullId, INTERNAL_ERROR, "Internal server error"),
           500, events \o <<"requestMetric">>)

(* processRequest after the switch: cache a success, return the response *)
ReturnFromSwitch(p, request, userId, response, events) ==
    LET cacheKey == generateCacheKey(request.method, request.params) IN
    IF shouldCache(request.method, response)
    THEN /\ cache' = cacheSet(cache, cacheKey, response, CacheTtl, clock)
         /\ Respond(p, request, userId, response, events \o <<"cacheSet">>)
    ELSE /\ cache' = cache
         /\ Respond(p, request, userId, response, events)

handleInitialize(id) == successResponse(id, [protocolVersion |-> "2024-11-05"])

handlePing(id, now) == successResponse(id, [status |-> "pong", uptime |-> now])

(* ResourceRegistry holds no resource, so readResource throws *)
handleResourceRead(id) == createErrorResponse(id, PROCESSING_ERROR, "Resource read failed")

ToolNameOf(params) ==
    IF params.kind = "object" /\ HasKey(params, "name") THEN Lookup(params, "name").s
    ELSE Undefined

(* handleToolCall and the synchronous part of executeTool, up to the first
   invocation of the handler *)
StartToolCall(p, r, u) ==
    LET name == ToolNameOf(r.params)
        securityContext == extractSecurityContext(u)
        i == IndexOfTool(registry, name)
    IN  IF ~SecurityService_canExecuteTool(securityContext, name)
        THEN /\ ReturnFromSwitch(p, r, u,
                    createErrorResponse(r.id, PERMISSION_DENIED, "Access denied for tool"), <<>>)
             /\ UNCHANGED <<registry, handlerCalls>>
        ELSE IF i = 0 \/ ~canExecuteTool(securityContext, registry[i])
        THEN /\ ReturnFromSwitch(p, r, u,
                    createErrorResponse(r.id, PROCESSING_ERROR, "Tool execution failed"),
                    <<"toolMetric">>)
             /\ UNCHANGED <<registry, handlerCalls>>
        ELSE /\ registry' = updateExecutionStats(registry, i, clock)
             /\ handlerCalls' = [handlerCalls EXCEPT ![name] = @ + 1]
             /\ pc' = [pc EXCEPT ![p] = "attempt"]
             /\ req' = [req EXCEPT ![p] = r]
             /\ ctx' = [ctx EXCEPT ![p] = u]
             /\ attempt' = [attempt EXCEPT ![p] = 0]
             /\ ev' = [ev EXCEPT ![p] = <<"handler">>]
             /\ UNCHANGED <<cache, cached, resp, last>>

(* handleMcpRequest up to the first suspension of processRequest *)
Receive(p, r, u) ==
    /\ pc[p] = "idle"
    /\ \A q \in Procs : q < p => pc[q] # "idle"   \* the first free slot takes it
    /\ nreq < MaxRequests
    /\ nreq' = nreq + 1
    /\ UNCHANGED clock
    /\ LET cacheKey == generateCacheKey(r.method, r.params) IN
       IF ~validateJsonRpcRequest(r) \/ Thrown(cacheKey)
       THEN /\ RespondInternalError(p, r, u, <<>>)
            /\ UNCHANGED <<registry, cache, handlerCalls>>
       ELSE IF isCacheableMethod(r.method)
       THEN /\ pc' = [pc EXCEPT ![p] = "get"]
            /\ req' = [req EXCEPT ![p] = r]
            /\ ctx' = [ctx EXCEPT ![p] = u]
            /\ cached' = [cached EXCEPT ![p] = cacheGet(cache, cacheKey, clock)]
            /\ ev' = [ev EXCEPT ![p] = <<"cacheGet">>]
            /\ UNCHANGED <<registry, cache, handlerCalls, resp, attempt, last>>
       ELSE IF r.method = "tools/call"
       THEN StartToolCall(p, r, u)
       ELSE IF r.method = "initialize"
       THEN /\ ReturnFromSwitch(p, r, u, handleInitialize(r.id), <<>>)
            /\ UNCHANGED <<registry, handlerCalls>>
       ELSE IF r.method = "resources/read"
       THEN /\ ReturnFromSwitch(p, r, u, handleResourceRead(r.id), <<>>)
            /\ UNCHANGED <<registry, handlerCalls>>
       ELSE IF r.method = "ping"
       THEN /\ ReturnFromSwitch(p, r, u, handlePing(r.id, clock), <<>>)
            /\ UNCHANGED <<registry, handlerCalls>>
       ELSE \* PluginManager.handleMethod throws; processRequest's catch
            /\ Respond(p, r, u,
                   createErrorResponse(r.id, INTERNAL_ERROR, "Request processing failed"), <<>>)
            /\ UNCHANGED <<registry, cache, handlerCalls>>
    /\ UNCHANGED auxVars

(* processRequest resumes after cache.get with a stored response *)
CacheHit(p) ==
    /\ pc[p] = "get"
    /\ cached[p] # NoEntry
    /\ Respond(p, req[p], ctx[p], cached[p], ev[p])
    /\ UNCHANGED <<registry, cache, clock, nreq, handlerCalls>>
    /\ UNCHANGED auxVars

handleToolsList(id, securityContext, ok) ==
    IF ok THEN successResponse(id, [tools |-> getAvailableTools(registry, securityContext)])
    ELSE createErrorResponse(id, PROCESSING_ERROR, "Failed to list tools")

handleResourcesList(id, ok) ==
    IF ok THEN successResponse(id, [resources |-> <<>>])
    ELSE createErrorResponse(id, PROCESSING_ERROR, "Failed to list resources")

(* processRequest resumes after a miss and runs the list handler; ok = FALSE
   is the handler's catch branch (the registry call rejected) *)
BuildList(p, ok) ==
    /\ pc[p] = "get"
    /\ cached[p] = NoEntry
    /\ resp' = [resp EXCEPT ![p] =
                  IF req[p].method = "tools/list"
                  THEN handleToolsList(req[p].id, extractSecurityContext(ctx[p]), ok)
                  ELSE handleResourcesList(req[p].id, ok)]
    /\ ev' = [ev EXCEPT ![p] = @ \o <<"build">>]
    /\ pc' = [pc EXCEPT ![p] = "store"]
    /\ UNCHANGED <<registry, cache, clock, nreq, req, ctx, cached, attempt, last, handlerCalls>>
    /\ UNCHANGED auxVars

(* the list handler has returned: cache the response if it is a success *)
Store(p) ==
    /\ pc[p] = "store"
    /\ ReturnFromSwitch(p, req[p], ctx[p], resp[p], ev[p])
    /\ UNCHANGED <<registry, clock, nreq, handlerCalls>>
    /\ UNCHANGED auxVars

RetriesOf(name) == registry[IndexOfTool(registry, name)].options.retries

(* Promise.race settles with the handler's result: executeTool records the
   metric and handleToolCall wraps the result *)
HandlerResolves(p) ==
    /\ pc[p] = "attempt"
    /\ ReturnFromSwitch(p, req[p], ctx[p],
           successResponse(req[p].id, [content |-> <<ToolNameOf(req[p].params)>>]),
           ev[p] \o <<"toolMetric">>)
    /\ UNCHANGED <<registry, clock, nreq, handlerCalls>>
    /\ UNCHANGED auxVars

failureEvents_perAttempt(how, exhausted) == <<how, "toolMetric">>

(* what a failed attempt leaves behind: executeTool's catch records the tool
   metric only when executeWithTimeout has thrown *)
failureEvents(how, exhausted) == IF exhausted THEN <<how, "toolMetric">> ELSE <<how>>

(* the catch block of the retry loop; after the last attempt lastError is
   thrown, executeTool records the failure and handleToolCall maps it *)
AttemptFails(p, how) ==
    /\ IF attempt[p] < RetriesOf(ToolNameOf(req[p].params))
       THEN /\ pc' = [pc EXCEPT ![p] = "backoff"]
            /\ ev' = [ev EXCEPT ![p] = @ \o failureEvents(how, FALSE)]
            /\ UNCHANGED <<cache, req, ctx, cached, resp, attempt, last>>
       ELSE ReturnFromSwitch(p, req[p], ctx[p],
                createErrorResponse(req[p].id, PROCESSING_ERROR, "Tool execution failed"),
                ev[p] \o failureEvents(how, TRUE))
    /\ UNCHANGED <<registry, clock, nreq, handlerCalls>>

(* the handler's promise rejects before the timer fires *)
HandlerRejects(p) ==
    /\ pc[p] = "attempt"
    /\ AttemptFails(p, "throw")
    /\ UNCHANGED auxVars

(* the timer rejects with 'Tool execution timeout' before the handler settles *)
TimerFires(p) ==
    /\ pc[p] = "attempt"
    /\ AttemptFails(p, "timeout")
    /\ UNCHANGED auxVars

(* the backoff timer has fired: next iteration of the loop *)
BackoffElapsed(p) ==
    /\ pc[p] = "backoff"
    /\ attempt' = [attempt EXCEPT ![p] = @ + 1]
    /\ handlerCalls' = [handlerCalls EXCEPT ![ToolNameOf(req[p].params)] = @ + 1]
    /\ ev' = [ev EXCEPT ![p] = @ \o <<"handler">>]
    /\ pc' = [pc EXCEPT ![p] = "attempt"]
    /\ UNCHANGED <<registry, cache, clock, nreq, req, ctx, cached, resp, last>>
    /\ UNCHANGED auxVars

Tick ==
    /\ clock < MaxClock
    /\ clock' = clock + TickStep
    /\ UNCHANGED <<registry, cache, nreq, pc, req, ctx, cached, resp, attempt, ev,
                   last, handlerCalls, auxVars>>

Next ==
    \/ \E p \in Procs, r \in Requests, u \in UserIds : Receive(p, r, u)
    \/ \E p \in Procs : CacheHit(p)
    \/ \E p \in Procs, ok \in BOOLEAN : BuildList(p, ok)
    \/ \E p \in Procs : Store(p)
    \/ \E p \in Procs : HandlerResolves(p)
    \/ \E p \in Procs : HandlerRejects(p)
    \/ \E p \in Procs : TimerFires(p)
    \/ \E p \in Procs : BackoffElapsed(p)
    \/ Tick

Spec == Init /\ [][Next]_vars

(* ------------------ one executeTool call, in milliseconds -------------- *)
(* handleToolCall -> executeTool -> executeWithTimeout for one call of the
   tool "ping", registered with the options under study.  Time moves from
   one timer or handler completion to the next. *)
ExecId    == "id1"
Durations == {10, 50, 200}        \* ms a handler takes to settle
HandlerError(coded) ==
    IF coded THEN [message |-> "File access denied", code |-> SERVER_ERROR_END]
    ELSE [message |-> "handler failed"]
TimeoutError == [message |-> "Tool execution timeout"]
Behaviours ==
    {[settle |-> "resolve", after |-> d] : d \in Durations}
    \cup {[settle |-> "reject", after |-> 10, error |-> HandlerError(c)] : c \in BOOLEAN}
    \cup {[settle |-> "reject", after |-> 200, error |-> HandlerError(FALSE)]}
    \cup {[settle |-> "never"]}
ExecOptions ==
    {[retries |-> r, timeout |-> 50] : r \in 0..MaxRetries}
    \cup {[retries |-> r] : r \in 1..MaxRetries}
    \cup {[timeout |-> DefaultTimeout]}

XTool       == registry[IndexOfTool(registry, "ping")]
XBehaviour  == behaviour[xattempt + 1]
HandlerResult(n) == [content |-> <<n>>]

timerDeadline_unarmed(start, timeout) == -1

timerDeadline_default(start, timeout) == start + DefaultTimeout

timerDeadline(start, timeout) == start + timeout

backoffDelay_constant(n) == 1000

backoffDelay_linear(n) == (n + 1) * 1000

backoffDelay(n) == (2 ^ n) * 1000

mayRetry_oneLess(n, retries) == n + 1 < retries

mayRetry(n, retries) == n < retries

backoffDue_immediately(now, wake) == TRUE

(* the await on the backoff promise *)
backoffDue(now, wake) == now = wake

settleRace_lastWins(settled, outcome, completion) == completion

(* Promise.race settles once: a completion that arrives after the race has
   settled leaves its outcome as it is *)
settleRace(settled, outcome, completion) ==
    IF settled THEN outcome ELSE completion

HandlerCompletion(i) ==
    IF behaviour[i].settle = "resolve" THEN [returned |-> HandlerResult(i - 1)]
    ELSE [thrown |-> behaviour[i].error]

handleToolCallReturn(id, outcome) ==
    IF "returned" \in DOMAIN outcome THEN successResponse(id, outcome.returned)
    ELSE createErrorResponse(id, PROCESSING_ERROR, "Tool execution failed")

InitExec ==
    /\ \E options \in ExecOptions :
          /\ registry = registerTool(<<>>, "ping", options)
          /\ behaviour \in [1..(Opt(options, "retries", 0) + 1) -> Behaviours]
    /\ handlerCalls = [n \in ToolNames |-> 0]
    /\ DispatchIdle
    /\ nowMs = 0
    /\ xpc = "call"
    /\ xattempt = 0
    /\ raceStart = 0
    /\ wakeAt = 0
    /\ lastError = NoError
    /\ xlog = <<>>
    /\ xresult = NoEntry
    /\ xresp = NoEntry
    /\ doneAt = 0
    /\ xmetrics = 0
    /\ late = {}
    /\ RegIdle
    /\ PureIdle

(* one iteration of the loop up to the await: the timer is set and the
   handler is called *)
Invoke(n) ==
    /\ xattempt' = n
    /\ raceStart' = nowMs
    /\ handlerCalls' = [handlerCalls EXCEPT !["ping"] = @ + 1]
    /\ xlog' = Append(xlog, [attempt |-> n, invokedAt |-> nowMs, endedAt |-> -1,
                             how |-> "running"])
    /\ xpc' = "race"

Ended(log, how) == [log EXCEPT ![Len(log)].endedAt = nowMs, ![Len(log)].how = how]

(* executeTool from the lookup to the first await; the tool is registered
   and its policy asks for nothing *)
ExecCall ==
    /\ xpc = "call"
    /\ IndexOfTool(registry, "ping") # 0
    /\ canExecuteTool(extractSecurityContext(NoUser), XTool)
    /\ registry' = updateExecutionStats(registry, IndexOfTool(registry, "ping"), nowMs)
    /\ Invoke(0)
    /\ UNCHANGED <<dispatchVars, nowMs, behaviour, wakeAt, lastError, xresult, xresp,
                   doneAt, xmetrics, late, regVars, pureVars>>

(* the race settles with the handler's value: executeWithTimeout returns it,
   executeTool returns it, handleToolCall wraps it *)
ExecHandlerResolves ==
    /\ xpc = "race"
    /\ XBehaviour.settle = "resolve"
    /\ nowMs = raceStart + XBehaviour.after
    /\ xlog' = Ended(xlog, "resolve")
    /\ xpc' = "done"
    /\ xresult' = [returned |-> HandlerResult(xattempt)]
    /\ xresp' = handleToolCallReturn(ExecId, [returned |-> HandlerResult(xattempt)])
    /\ doneAt' = nowMs
    /\ xmetrics' = xmetrics + 1
    /\ UNCHANGED <<registry, handlerCalls, dispatchVars, nowMs, xattempt, behaviour,
                   raceStart, wakeAt, lastError, late, regVars, pureVars>>

(* the catch block of the loop and, after the last iteration, the throw *)
CatchAttempt(how, error) ==
    /\ xlog' = Ended(xlog, how)
    /\ lastError' = error
    /\ IF mayRetry(xattempt, XTool.options.retries)
       THEN /\ xpc' = "backoff"
            /\ wakeAt' = nowMs + backoffDelay(xattempt)
            /\ UNCHANGED <<xresult, xresp, doneAt, xmetrics>>
       ELSE /\ xpc' = "done"
            /\ xresult' = [thrown |-> error]
            /\ xresp' = handleToolCallReturn(ExecId, [thrown |-> error])
            /\ doneAt' = nowMs
            /\ xmetrics' = xmetrics + 1
            /\ UNCHANGED wakeAt
    /\ UNCHANGED <<registry, handlerCalls, dispatchVars, nowMs, xattempt, behaviour,
                   raceStart, late, regVars, pureVars>>

ExecHandlerRejects ==
    /\ xpc = "race"
    /\ XBehaviour.settle = "reject"
    /\ nowMs = raceStart + XBehaviour.after
    /\ CatchAttempt("reject", XBehaviour.error)

ExecTimerFires ==
    /\ xpc = "race"
    /\ nowMs = timerDeadline(raceStart, XTool.options.timeout)
    /\ CatchAttempt("timeout", TimeoutError)

(* the backoff timer fires: attempt++ and the next iteration *)
ExecBackoffElapsed ==
    /\ xpc = "backoff"
    /\ backoffDue(nowMs, wakeAt)
    /\ Invoke(xattempt + 1)
    /\ UNCHANGED <<registry, dispatchVars, nowMs, behaviour, wakeAt, lastError,
                   xresult, xresp, doneAt, xmetrics, late, regVars, pureVars>>

(* attempts that ended with the timeout and whose handler is still running *)
Abandoned ==
    {i \in 1..Len(xlog) : /\ xlog[i].how = "timeout"
                          /\ behaviour[i].settle # "never"
                          /\ i \notin late}

(* the handler of an abandoned attempt completes: its promise settles, and
   the race it was passed to has settled already *)
ExecLateCompletion ==
    \E i \in Abandoned :
        /\ nowMs = xlog[i].invokedAt + behaviour[i].after
        /\ late' = late \cup {i}
        /\ xresult' = settleRace(xlog[i].how # "running", xresult, HandlerCompletion(i))
        /\ UNCHANGED <<registry, handlerCalls, dispatchVars, nowMs, xpc, xattempt,
                       behaviour, raceStart, wakeAt, lastError, xlog, xresp, doneAt,
                       xmetrics, regVars, pureVars>>

Pending ==
    (IF xpc = "race"
     THEN {timerDeadline(raceStart, XTool.options.timeout)}
          \cup (IF XBehaviour.settle = "never" THEN {} ELSE {raceStart + XBehaviour.after})
     ELSE IF xpc = "backoff" THEN {wakeAt}
     ELSE {})
    \cup {xlog[i].invokedAt + behaviour[i].after : i \in Abandoned}

(* nothing is due: time passes until the next timer or completion *)
ExecAdvance ==
    /\ Pending # {}
    /\ \A t \in Pending : nowMs < t
    /\ nowMs' = CHOOSE t \in Pending : \A u \in Pending : t <= u
    /\ UNCHANGED <<registry, handlerCalls, dispatchVars, xpc, xattempt, behaviour,
                   raceStart, wakeAt, lastError, xlog, xresult, xresp, doneAt, xmetrics,
                   late, regVars, pureVars>>

NextExec ==
    \/ ExecCall
    \/ ExecHandlerResolves
    \/ ExecHandlerRejects
    \/ ExecTimerFires
    \/ ExecBackoffElapsed
    \/ ExecLateCompletion
    \/ ExecAdvance

SpecExec == InitExec /\ [][NextExec]_vars

(* the event loop runs every timer and continuation that is due *)
SpecExecLive == SpecExec /\ WF_vars(NextExec)

(* ------------------- the registry under register / unregister ---------- *)
Permissions == {"read", "write", "admin"}
Contexts    == {[userId |-> u, roles |-> {"user"}, permissions |-> ps] :
                   u \in UserIds, ps \in SUBSET Permissions}
RegNames    == {"ping", "sec", "adm"}
RegOptions  == {[timeout |-> DefaultTimeout],
                [requiresAuth |-> TRUE],
                [requiredPermissions |-> {"admin"}]}
DuplicateError(name) == [message |-> "Tool is already registered", name |-> name]

InitReg ==
    /\ registry = <<>>
    /\ handlerCalls = [n \in ToolNames |-> 0]
    /\ DispatchIdle
    /\ ExecIdle
    /\ RegIdle
    /\ PureIdle

Register(name, options) ==
    /\ nops < MaxOps
    /\ nops' = nops + 1
    /\ lastOp' = [op |-> "register", name |-> name, options |-> options]
    /\ registry' = registerTool(registry, name, options)
    /\ IF AlreadyRegistered(registry, name)
       THEN /\ regError' = DuplicateError(name)
            /\ UNCHANGED regTime
       ELSE /\ regError' = NoError
            /\ regTime' = [regTime EXCEPT ![name] = nops + 1]
    /\ UNCHANGED <<handlerCalls, dispatchVars, execVars, pureVars>>

Unregister(name) ==
    /\ nops < MaxOps
    /\ nops' = nops + 1
    /\ lastOp' = [op |-> "unregister", name |-> name]
    /\ registry' = unregisterTool(registry, name)
    /\ regTime' = [regTime EXCEPT ![name] = 0]
    /\ regError' = NoError
    /\ UNCHANGED <<handlerCalls, dispatchVars, execVars, pureVars>>

(* executeTool's bookkeeping for a registered tool *)
CountExecution(name) ==
    /\ nops < MaxOps
    /\ IndexOfTool(registry, name) # 0
    /\ nops' = nops + 1
    /\ lastOp' = [op |-> "execute", name |-> name]
    /\ registry' = updateExecutionStats(registry, IndexOfTool(registry, name), nops + 1)
    /\ regError' = NoError
    /\ UNCHANGED <<regTime, handlerCalls, dispatchVars, execVars, pureVars>>

NextReg ==
    \/ \E name \in RegNames, options \in RegOptions : Register(name, options)
    \/ \E name \in RegNames : Unregister(name)
    \/ \E name \in RegNames : CountExecution(name)

SpecReg == InitReg /\ [][NextReg]_vars

(* ----------------------- the permission gate, applied ------------------ *)
Policies == {[requiresAuth |-> a, requiredPermissions |-> ps,
              timeout |-> DefaultTimeout, retries |-> 0] :
                a \in BOOLEAN, ps \in SUBSET Permissions}

InitGate ==
    /\ registry = InitialTools
    /\ handlerCalls = [n \in ToolNames |-> 0]
    /\ DispatchIdle
    /\ ExecIdle
    /\ RegIdle
    /\ input \in {[policy |-> policy, securityContext |-> c] :
                     policy \in Policies, c \in Contexts}
    /\ output = NoEntry

EvalGate ==
    /\ output = NoEntry
    /\ output' = [allowed |-> canExecuteTool(input.securityContext,
                                             [options |-> input.policy])]
    /\ UNCHANGED <<registry, handlerCalls, dispatchVars, execVars, regVars, input>>

NextGate == EvalGate

SpecGate == InitGate /\ [][NextGate]_vars

(* -------------------------- the cache key, applied --------------------- *)
FieldNames  == {"a", "b", "name"}
NestedValues == {Nested(<< <<"a", Num("1")>>, <<"b", Num("2")>> >>),
                 Nested(<< <<"b", Num("2")>>, <<"a", Num("1")>> >>)}
FieldValues == {Num("1")} \cup NestedValues

Distinct(ks) == \A i, j \in 1..Len(ks) : ks[i] = ks[j] => i = j
ParamObjects ==
    UNION {{Obj([i \in 1..n |-> <<ks[i], vs[i]>>]) :
              ks \in {k \in [1..n -> FieldNames] : Distinct(k)},
              vs \in [1..n -> FieldValues]} : n \in 0..MaxFields}

(* the same fields with the same values, objects compared field by field *)
SameValue(v, w) ==
    \/ v = w
    \/ /\ v.t = "obj" /\ w.t = "obj"
       /\ Len(v.body) = Len(w.body)
       /\ \A i \in 1..Len(v.body) : HasKey(w, v.body[i][1])
                                    /\ Lookup(w, v.body[i][1]) = v.body[i][2]
SameUpToOrder(p, q) ==
    /\ Len(p.body) = Len(q.body)
    /\ \A i \in 1..Len(p.body) :
          HasKey(q, p.body[i][1]) /\ SameValue(p.body[i][2], Lookup(q, p.body[i][1]))

InitKey ==
    /\ registry = InitialTools
    /\ handlerCalls = [n \in ToolNames |-> 0]
    /\ DispatchIdle
    /\ ExecIdle
    /\ RegIdle
    /\ input \in UNION {{[method |-> m, params |-> p, reordered |-> q] :
                              m \in {"tools/list", "tools/call"},
                              q \in {o \in ParamObjects : SameUpToOrder(p, o)}} :
                            p \in ParamObjects}
    /\ output = NoEntry

EvalKey ==
    /\ output = NoEntry
    /\ output' = [key |-> generateCacheKey(input.method, input.params),
                  reorderedKey |-> generateCacheKey(input.method, input.reordered)]
    /\ UNCHANGED <<registry, handlerCalls, dispatchVars, execVars, regVars, input>>

NextKey == EvalKey

SpecKey == InitKey /\ [][NextKey]_vars

(* ------------------------------- claims -------------------------------- *)
Dispatched == last # NoDispatch
Events(d)  == {d.ev[i] : i \in 1..Len(d.ev)}
InFlight   == {p \in Procs : pc[p] # "idle"}
Done       == nreq - Cardinality(InFlight)   \* dispatches that have finished

MalformedEnvelope(r) ==
    r.jsonrpc # "2.0" \/ r.method \in {MissingMethod, "", NonStringMethod}

ErrorCodeIs(d, code) == hasError(d.resp) /\ d.resp.error.code = code

(* a tools/call that names a registered tool whose policy requires a
   permission the caller does not hold *)
LacksPermission(d, tools) ==
    /\ ~MalformedEnvelope(d.req)
    /\ d.req.method = "tools/call"
    /\ d.req.params.kind = "object"
    /\ \E i \in 1..Len(tools) :
          /\ tools[i].tool.name = ToolNameOf(d.req.params)
          /\ \E permission \in tools[i].options.requiredPermissions :
                permission \notin extractSecurityContext(d.userId).permissions

(* C1: a request whose version is not "2.0", or whose method is missing,
   empty or not a string, gets an InvalidRequest error (-32600) and causes no
   cache lookup, no cache store and no handler execution. *)
C1_MalformedIsInvalidRequest ==
    (Dispatched /\ MalformedEnvelope(last.req)) =>
        /\ ErrorCodeIs(last, INVALID_REQUEST)
        /\ Events(last) \cap {"cacheGet", "cacheSet", "handler", "build"} = {}

(* C2: a well-formed request whose method is neither a built-in protocol
   method nor claimed by a plugin gets the error MethodNotFound (-32601). *)
C2_UnknownMethodIsMethodNotFound ==
    (Dispatched /\ ~MalformedEnvelope(last.req) /\ last.req.method \notin BuiltinMethods) =>
        ErrorCodeIs(last, METHOD_NOT_FOUND)

(* C3: when tools/call names a registered tool whose policy requires a
   permission the caller lacks, the handler is not invoked, not even once,
   and the tool's execution counter stays unchanged. *)
C3_DeniedCallNeverRuns ==
    [][(Done' = Done + 1 /\ LacksPermission(last', registry)) =>
          /\ registry' = registry
          /\ handlerCalls' = handlerCalls
          /\ "handler" \notin Events(last')]_vars

C3_Witness ==
    /\ Dispatched
    /\ LacksPermission(last, registry)
    /\ handlerCalls["adm"] = 0

(* C4: a tools/call denied for a missing permission is answered with the
   error PermissionDenied (-32003). *)
C4_DeniedCallIsPermissionDenied ==
    (Dispatched /\ LacksPermission(last, registry)) => ErrorCodeIs(last, PERMISSION_DENIED)

(* C5: a request whose id is null produces no response at all, whatever the
   method and the outcome; the same request with an id produces a response. *)
C5_NotificationGetsNoResponse ==
    Dispatched => (last.sent <=> last.req.id # NullId)

(* C6: every response to a request with a non-null id contains exactly one
   of result and error, on every dispatch path. *)
C6_ResultXorError ==
    (Dispatched /\ last.req.id # NullId) => (hasResult(last.resp) # hasError(last.resp))

C6_Witness ==
    /\ Dispatched
    /\ last.req.id # NullId
    /\ "cacheGet" \in Events(last)
    /\ "build" \notin Events(last)
    /\ hasResult(last.resp)

(* C7: a ping with a non-null id gets a result, never an error, and the
   response carries the request's id, for params that are a map, a list or
   absent. *)
C7_PingAlwaysSucceeds ==
    (Dispatched /\ ~MalformedEnvelope(last.req) /\ last.req.method = "ping"
       /\ last.req.id # NullId) =>
        /\ hasResult(last.resp)
        /\ ~hasError(last.resp)
        /\ last.resp.id = last.req.id

(* C8: when a tools/list request has built and returned its list and the
   same request (method and params) is issued next, within the TTL, the
   second is served the first one's result and builds no list. *)
C8_SecondListIsServedFromCache ==
    [][\A p \in Procs :
         /\ ( /\ pc[p] = "idle" /\ pc'[p] = "get"
              /\ req'[p].method = "tools/list"
              /\ Dispatched
              /\ last.req.method = "tools/list"
              /\ last.req.params = req'[p].params
              /\ hasResult(last.resp)
              /\ "build" \in Events(last)
              /\ clock - last.at < CacheTtl )
            => (cached'[p] # NoEntry /\ cached'[p].result = last.resp.result)
         /\ (pc[p] = "get" /\ cached[p] # NoEntry /\ pc'[p] # "get")
            => ( /\ pc'[p] = "idle"
                 /\ last'.resp = cached[p]
                 /\ "build" \notin Events(last') )]_vars

C8_Witness ==
    /\ Dispatched
    /\ last.req.method = "tools/list"
    /\ hasResult(last.resp)
    /\ "cacheGet" \in Events(last)
    /\ "build" \notin Events(last)

(* C9: no response that contains an error is ever in the response cache. *)
C9_NoErrorInCache ==
    \A k \in DOMAIN cache : ~hasError(cache[k].value)

(* an error response came back from the switch while the cache holds entries *)
C9_Witness ==
    /\ Dispatched
    /\ ErrorCodeIs(last, PROCESSING_ERROR)
    /\ last.status = 200
    /\ DOMAIN cache # {}

(* C10: the tools returned by tools/list are only tools whose policy the
   caller's own security context satisfies, also when the response comes
   from the cache. *)
C10_ListOnlyPermittedTools ==
    (Dispatched /\ last.req.method = "tools/list" /\ hasResult(last.resp)) =>
        \A i \in 1..Len(last.resp.result.tools) :
           \E j \in 1..Len(registry) :
              /\ registry[j].tool = last.resp.result.tools[i]
              /\ ~(registry[j].options.requiresAuth /\ last.userId = NoUser)
              /\ registry[j].options.requiredPermissions
                    \subseteq extractSecurityContext(last.userId).permissions

(* a tools/call that names a tool the registry does not hold *)
NamesUnknownTool(d, tools) ==
    /\ ~MalformedEnvelope(d.req)
    /\ d.req.method = "tools/call"
    /\ d.req.params.kind = "object"
    /\ HasKey(d.req.params, "name")
    /\ IndexOfTool(tools, ToolNameOf(d.req.params)) = 0

(* messages that contain 'Tool not found' *)
ToolNotFoundMessages == {"Tool not found"} \cup {"Tool not found: " \o n : n \in ToolNames}

(* C16: a tools/call that names an unregistered tool is answered with an
   error whose message contains 'Tool not found', and no handler runs. *)
C16_UnknownToolIsToolNotFound ==
    (Dispatched /\ NamesUnknownTool(last, registry)) =>
        /\ hasError(last.resp)
        /\ last.resp.error.message \in ToolNotFoundMessages
        /\ "handler" \notin Events(last)

(* ---------------------- claims about counters and metrics -------------- *)
ToolOf(request)     == ToolNameOf(request.params)
ExecCount(tools, n) == tools[IndexOfTool(tools, n)].executionCount
Registered          == {registry[i].tool.name : i \in 1..Len(registry)}
Starting(p)         == pc[p] = "idle" /\ pc'[p] = "attempt"
Executing           == {p \in Procs : pc[p] \in {"attempt", "backoff"}}
CountOf(events, e)  == Cardinality({i \in 1..Len(events) : events[i] = e})

(* executeTool was called for this dispatch *)
ReachedExecuteTool(d) ==
    /\ ~MalformedEnvelope(d.req)
    /\ d.req.method = "tools/call"
    /\ d.req.params.kind = "object"

ServedFromCache(d) == "cacheGet" \in Events(d) /\ "build" \notin Events(d)

CacheKeyOf(request) == generateCacheKey(request.method, request.params)

(* C21: a call that passes lookup and permission check has its tool's
   execution counter incremented and last-executed time set no later than
   the first invocation of the handler, and a call whose handler throws or
   times out stays counted. *)
C21_CountedBeforeInvocation ==
    [][/\ \A p \in Procs :
            /\ Starting(p) =>
                  LET n == ToolOf(req'[p])
                      i == IndexOfTool(registry, n)
                  IN  /\ handlerCalls'[n] = handlerCalls[n] + 1
                      /\ registry'[i].executionCount = registry[i].executionCount + 1
                      /\ registry'[i].lastExecuted = clock
            /\ p \in Executing =>
                  ExecCount(registry', ToolOf(req[p])) >= ExecCount(registry, ToolOf(req[p]))
       /\ \A n \in Registered : handlerCalls'[n] > 0 => ExecCount(registry', n) > 0]_vars

(* a call whose last attempt failed has finished and is counted *)
C21_Witness ==
    /\ Dispatched
    /\ ReachedExecuteTool(last)
    /\ Events(last) \cap {"throw", "timeout"} # {}
    /\ hasError(last.resp)
    /\ ExecCount(registry, ToolOf(last.req)) = 1

(* C22: an execution records exactly one tool-execution metric, when it has
   reached its outcome, however many attempts were made; none is recorded
   while attempts are still being made. *)
C22_OneToolMetricPerExecution ==
    /\ \A p \in InFlight : CountOf(ev[p], "toolMetric") = 0
    /\ Dispatched =>
          /\ CountOf(last.ev, "toolMetric") = (IF ReachedExecuteTool(last) THEN 1 ELSE 0)
          /\ \A i, j \in 1..Len(last.ev) :
                (last.ev[i] = "toolMetric" /\ last.ev[j] \in {"handler", "throw", "timeout"})
                   => j < i

(* an execution that needed two attempts *)
C22_Witness ==
    /\ Dispatched
    /\ CountOf(last.ev, "handler") = 2
    /\ CountOf(last.ev, "toolMetric") = 1

(* C23: a dispatch that is not served from the cache records exactly one
   request metric; a dispatch served from the cache records no request
   metric, only a cache hit. *)
C23_NoRequestMetricOnCacheHit ==
    Dispatched =>
        IF ServedFromCache(last)
        THEN CountOf(last.ev, "requestMetric") = 0 /\ "cacheHit" \in Events(last)
        ELSE CountOf(last.ev, "requestMetric") = 1

(* C24: in every step the execution counter of each tool grows by exactly
   the number of calls of that tool that pass the checks in it, and it is
   never below the number of such calls in flight. *)
C24_NoLostCounterUpdate ==
    [][\A n \in Registered :
          /\ ExecCount(registry', n) - ExecCount(registry, n)
                = Cardinality({p \in Procs : Starting(p) /\ ToolOf(req'[p]) = n})
          /\ ExecCount(registry', n)
                >= Cardinality({p \in Procs : pc'[p] \in {"attempt", "backoff"}
                                              /\ ToolOf(req'[p]) = n})]_vars

(* two calls of the same tool are in flight together and both are counted *)
C24_Witness ==
    \E p, q \in Executing :
        /\ p # q
        /\ ToolOf(req[p]) = "ping"
        /\ ToolOf(req[q]) = "ping"
        /\ ExecCount(registry, "ping") = 2

(* C26: a cacheable request whose lookup missed runs its handler whatever
   other identical requests have stored meanwhile, and stores its own
   success response under the key. *)
C26_NoCoalescing ==
    [][\A p \in Procs :
          /\ (pc[p] = "get" /\ cached[p] = NoEntry /\ pc'[p] # "get") =>
                /\ pc'[p] = "store"
                /\ ev'[p] = ev[p] \o <<"build">>
          /\ (pc[p] = "store" /\ pc'[p] # "store" /\ hasResult(resp[p])) =>
                /\ CacheKeyOf(req[p]) \in DOMAIN cache'
                /\ cache'[CacheKeyOf(req[p])].value = resp[p]
                /\ "cacheSet" \in Events(last')]_vars

(* one of two identical requests that both missed has stored its response;
   the other has built its own and is about to store it *)
C26_Witness ==
    /\ Dispatched
    /\ {"build", "cacheSet"} \subseteq Events(last)
    /\ \E p \in Procs :
          /\ pc[p] = "store"
          /\ hasResult(resp[p])
          /\ CacheKeyOf(req[p]) = CacheKeyOf(last.req)
          /\ resp[p] # last.resp

(* C27: a response to a request with a non-null id carries that id, on
   every path. *)
C27_ResponseCarriesRequestId ==
    (Dispatched /\ last.req.id # NullId) => last.resp.id = last.req.id

(* C29: initialize, tools/call, resources/read and ping requests cause no
   cache lookup and no cache store, and each of them is executed. *)
C29_NonCacheableBypassesCache ==
    (Dispatched /\ ~MalformedEnvelope(last.req)
       /\ last.req.method \in {"initialize", "tools/call", "resources/read", "ping"}) =>
        /\ Events(last) \cap {"cacheGet", "cacheSet"} = {}
        /\ last.status = 200
        /\ ~ErrorCodeIs(last, INTERNAL_ERROR)

(* -------------------------- claims about the registry ------------------ *)
IsRegistered(name) == regTime[name] > 0
Listed(securityContext) == getAvailableTools(registry, securityContext)

(* the permission gate as the specification words it *)
GateDenies(policy, securityContext) ==
    \/ policy.requiresAuth /\ securityContext.userId = NoUser
    \/ /\ policy.requiredPermissions # {}
       /\ ~(policy.requiredPermissions \subseteq securityContext.permissions)

(* C14: registering a name that is already registered fails with the
   duplicate error and leaves the registry unchanged: descriptor, policy and
   counters of the first registration remain, and the list of available
   tools is the same for every security context. *)
C14_DuplicateRegistrationChangesNothing ==
    [][(nops' = nops + 1 /\ lastOp'.op = "register" /\ IsRegistered(lastOp'.name)) =>
          /\ regError' = DuplicateError(lastOp'.name)
          /\ registry' = registry
          /\ \A c \in Contexts :
                getAvailableTools(registry', c) = getAvailableTools(registry, c)]_vars

(* a duplicate registration with another policy of a tool that has run *)
C14_Witness ==
    /\ regError # NoError
    /\ \E i \in 1..Len(registry) :
          /\ registry[i].tool.name = lastOp.name
          /\ registry[i].executionCount > 0
          /\ registry[i].options.requiresAuth
          /\ lastOp.options = [requiredPermissions |-> {"admin"}]

(* C17: after any sequence of register and unregister operations, the list
   for a security context holds exactly the descriptors of the currently
   registered tools whose policy passes the gate for it, each once, in the
   order in which those tools were registered. *)
C17_ListIsRegisteredPermittedInOrder ==
    \A c \in Contexts :
       /\ {Listed(c)[i].name : i \in 1..Len(Listed(c))}
             = {n \in RegNames : IsRegistered(n)
                                 /\ ~GateDenies(registry[IndexOfTool(registry, n)].options, c)}
       /\ \A i, j \in 1..Len(Listed(c)) :
             i < j => regTime[Listed(c)[i].name] < regTime[Listed(c)[j].name]

(* the tool registered first was unregistered and registered again: it is
   now listed after the tool registered second *)
C17_Witness ==
    /\ Len(registry) = 2
    /\ lastOp.op = "register"
    /\ regError = NoError
    /\ regTime[registry[1].tool.name] = 2
    /\ regTime[registry[2].tool.name] = 4
    /\ Len(Listed(extractSecurityContext("u1"))) = 2

(* C18: the gate denies exactly when the policy requires auth and the
   context has no userId, or the required permissions are non-empty and not
   all among the context's permissions; otherwise it allows; evaluating it
   changes no state. *)
C18_GateDeniesExactly ==
    [][output' # output =>
          /\ output'.allowed = ~GateDenies(input.policy, input.securityContext)
          /\ UNCHANGED <<registry, handlerCalls, cache, input>>]_vars

(* the gate denied a caller who holds some, but not all, of the required
   permissions *)
C18_Witness ==
    /\ output # NoEntry
    /\ ~output.allowed
    /\ input.securityContext.userId # NoUser
    /\ input.policy.requiredPermissions \cap input.securityContext.permissions # {}

(* C19: two requests with the same method whose params are equal up to the
   order of fields get the same cache key. *)
C19_KeyIgnoresFieldOrder ==
    output # NoEntry => output.key = output.reorderedKey

(* the two params list their fields in different orders *)
C19_Witness ==
    /\ output # NoEntry
    /\ input.params # input.reordered
    /\ Len(input.params.body) = 2
    /\ input.params.body[1][1] = input.reordered.body[2][1]
    /\ output.key = output.reorderedKey

(* ---------------------- claims about one executeTool call -------------- *)
Retries == XTool.options.retries
Timeout == XTool.options.timeout
Calls   == handlerCalls["ping"]

(* what the handler's behaviour makes of invocation i (1-based): it fails
   when it rejects, never settles or settles after the timeout; it succeeds
   when it resolves before the timeout *)
NotDoneBy(i)  == behaviour[i].settle = "never" \/ behaviour[i].after > Timeout
FailsAt(i)    == behaviour[i].settle = "reject" \/ NotDoneBy(i)
SucceedsAt(i) == behaviour[i].settle = "resolve" /\ behaviour[i].after < Timeout
FailureAt(i)  == IF NotDoneBy(i) THEN TimeoutError ELSE behaviour[i].error

Waits == [i \in 1..(Len(xlog) - 1) |-> xlog[i + 1].invokedAt - xlog[i].endedAt]
ScheduledWait(n) == IF n = 0 THEN 0 ELSE (2 ^ (n - 1)) * 1000

(* C11: with maxRetries = R, a handler that fails on its first k attempts
   (k <= R) and then succeeds makes execute return that success unchanged
   after exactly k+1 invocations; a handler that fails on every attempt is
   invoked exactly R+1 times and the last attempt's failure propagates. *)
C11_RetryUntilSuccess ==
    xpc = "done" =>
        /\ \A k \in 0..Retries :
              ((\A i \in 1..k : FailsAt(i)) /\ SucceedsAt(k + 1)) =>
                  /\ xresult = [returned |-> HandlerResult(k)]
                  /\ Calls = k + 1
        /\ (\A i \in 1..(Retries + 1) : FailsAt(i)) =>
              /\ Calls = Retries + 1
              /\ xresult = [thrown |-> FailureAt(Retries + 1)]

C11_Witness ==
    /\ xpc = "done"
    /\ Retries = 3
    /\ FailsAt(1)
    /\ SucceedsAt(2)
    /\ Calls = 2
    /\ xresult = [returned |-> HandlerResult(1)]

(* C12: an attempt whose handler has not completed when the timeout elapses
   ends at that moment with the Timeout failure; with maxRetries = 0 the
   call then fails with Timeout after the timeout, not after the handler's
   duration. *)
C12_TimeoutEndsAttempt ==
    /\ xpc = "race" => nowMs <= raceStart + Timeout
    /\ \A i \in 1..Len(xlog) :
          (xlog[i].how # "running" /\ NotDoneBy(i)) =>
              /\ xlog[i].how = "timeout"
              /\ xlog[i].endedAt = xlog[i].invokedAt + Timeout
    /\ (xpc = "done" /\ Retries = 0 /\ NotDoneBy(1)) =>
          /\ xresult = [thrown |-> TimeoutError]
          /\ doneAt = Timeout

C12_Witness ==
    /\ xpc = "done"
    /\ Retries = 0
    /\ Timeout = 50
    /\ behaviour[1] = [settle |-> "resolve", after |-> 200]
    /\ xresult = [thrown |-> TimeoutError]
    /\ doneAt = 50

(* C13 as stated: with maxRetries = 2 and a handler that fails on attempts
   1 and 2 and succeeds on attempt 3, the waits between the three attempts
   are 0 s and then 1 s. *)
C13_WaitsZeroThenOne ==
    (xpc = "done" /\ Retries = 2 /\ FailsAt(1) /\ FailsAt(2) /\ SucceedsAt(3)) =>
        Waits = <<0, 1000>>

(* C13 amended: in that run the waits between the three attempts are 1 s
   and then 2 s. *)
C13_WaitsOneThenTwo ==
    (xpc = "done" /\ Retries = 2 /\ FailsAt(1) /\ FailsAt(2) /\ SucceedsAt(3)) =>
        Waits = <<1000, 2000>>

C13_Witness ==
    /\ xpc = "done"
    /\ Retries = 2
    /\ FailsAt(1) /\ FailsAt(2) /\ SucceedsAt(3)
    /\ Len(xlog) = 3
    /\ "returned" \in DOMAIN xresult

(* C15: when the handler fails on its final attempt, the caller gets an
   error response whose code is the one the handler's error carries, and the
   processing error (-32006) when it carries none. *)
C15_HandlerErrorCodeSurfaces ==
    (xpc = "done" /\ "thrown" \in DOMAIN xresult) =>
        /\ hasError(xresp)
        /\ ~hasResult(xresp)
        /\ xresp.error.code = (IF "code" \in DOMAIN xresult.thrown
                               THEN xresult.thrown.code ELSE PROCESSING_ERROR)

(* C20: nothing is waited before attempt 0, 1 s before attempt 1, 2 s before
   attempt 2, 4 s before attempt 3, doubling thereafter, and no wait follows
   the last attempt. *)
C20_BackoffSchedule ==
    /\ \A i \in 1..Len(xlog) :
          xlog[i].invokedAt - (IF i = 1 THEN 0 ELSE xlog[i - 1].endedAt)
             = ScheduledWait(xlog[i].attempt)
    /\ Len(xlog) <= Retries + 1
    /\ xpc = "backoff" => xattempt < Retries
    /\ (xpc = "done" /\ xlog # <<>>) => doneAt = xlog[Len(xlog)].endedAt

C20_Witness ==
    /\ xpc = "done"
    /\ Len(xlog) = 4
    /\ Waits = <<1000, 2000, 4000>>
    /\ "thrown" \in DOMAIN xresult

(* C25: a further attempt starts only when the attempt before it has ended
   with a thrown error or a timeout and the backoff wait set after it has
   elapsed; no two attempts of one call are in progress together. *)
C25_AttemptsAreSequential ==
    [][/\ (Len(xlog') > Len(xlog) /\ xlog # <<>>) =>
             /\ xlog[Len(xlog)].how \in {"reject", "timeout"}
             /\ xpc = "backoff"
             /\ wakeAt > xlog[Len(xlog)].endedAt
             /\ nowMs >= wakeAt
       /\ \A i \in 1..(Len(xlog') - 1) : xlog'[i].how # "running"]_vars

(* the second attempt is running, one second after the first timed out *)
C25_Witness ==
    /\ xpc = "race"
    /\ Len(xlog) = 2
    /\ xlog[1].how = "timeout"
    /\ xlog[2].invokedAt = xlog[1].endedAt + 1000

(* C28: the completion of a handler whose attempt has ended with the timeout
   changes nothing of the call: not its result, not the failure that
   propagates, not the number of attempts, the counter or the metrics; and a
   call that has ended keeps its outcome. *)
C28_LateCompletionIsIgnored ==
    [][/\ late' # late =>
             UNCHANGED <<xpc, xattempt, xresult, xresp, lastError, xlog, wakeAt,
                         handlerCalls, registry, xmetrics>>
       /\ xpc = "done" =>
             UNCHANGED <<xpc, xresult, xresp, handlerCalls, registry, xmetrics>>]_vars

(* the call has failed with the timeout; since then one abandoned handler
   has resolved and another has rejected *)
C28_Witness ==
    /\ xpc = "done"
    /\ xresult = [thrown |-> TimeoutError]
    /\ xmetrics = 1
    /\ \E i, j \in late :
          /\ behaviour[i].settle = "resolve"
          /\ behaviour[j].settle = "reject"

TotalBudget == (Retries + 1) * Timeout + ((2 ^ Retries) - 1) * 1000

(* C30: every call ends, whatever the handler does; it makes at most R+1
   attempts, none of which lasts longer than T, every backoff wait has an
   end, and the call has ended when these have passed. *)
C30_ExecuteTerminates ==
    /\ <>(xpc = "done")
    /\ [](/\ Calls <= Retries + 1
          /\ \A i \in 1..Len(xlog) :
                xlog[i].how # "running" => xlog[i].endedAt - xlog[i].invokedAt <= Timeout
          /\ xpc = "race" => nowMs - raceStart <= Timeout
          /\ xpc = "backoff" => wakeAt - nowMs <= backoffDelay(Retries)
          /\ xpc = "done" => doneAt <= TotalBudget)

(* a handler that never completes has been given up after three attempts *)
C30_Witness ==
    /\ xpc = "done"
    /\ Retries = 2
    /\ \A i \in 1..3 : behaviour[i].settle = "never"
    /\ Calls = 3
    /\ doneAt = 3 * Timeout + 3000

====
